---- MODULE Spec2Model ----
(***************************************************************************)
(* Shared-Key signing and dispatch of one Azure queue message, as          *)
(* implemented in src/queuemsg/lib.rs.                                     *)
(*                                                                         *)
(* A Rust String is modelled as the sequence of its bytes; every byte used *)
(* here is ASCII and is written as a one-character TLA+ string, so Len is  *)
(* String::len().                                                          *)
(***************************************************************************)
EXTENDS Integers, Sequences, FiniteSets, TLC

\* ------------------------------------------------------------------ bounds

\* Longest payload handed to create_request / create_content_string.
MaxPayloadLen == 2

\* Largest content_length handed directly to construct_signature.
MaxContentLength == 120

\* ------------------------------------------------------- string primitives

LF == "\n"

DigitChars == <<"0","1","2","3","4","5","6","7","8","9">>

DigitChar(d) == DigitChars[d + 1]

IsDigitChar(c) == \E d \in 0..9 : DigitChars[d + 1] = c

DigitValue(c) == CHOOSE d \in 0..9 : DigitChars[d + 1] = c

\* Vec<String>::join(""): the concatenation of the pushed pieces, in order.
RECURSIVE join(_)
join(pieces) ==
    IF pieces = << >> THEN << >> ELSE Head(pieces) \o join(Tail(pieces))

\* Display for an unsigned integer ("{}"): decimal, most significant digit
\* first, "0" for zero.
RECURSIVE fmt_usize(_)
fmt_usize(n) ==
    IF n < 10 THEN << DigitChar(n) >>
    ELSE fmt_usize(n \div 10) \o << DigitChar(n % 10) >>

\* chrono's zero-padded two-digit fields: %d %H %M %S.
fmt_pad2(n) == << DigitChar((n \div 10) % 10), DigitChar(n % 10) >>

\* chrono's %Y for the years 0..9999: four digits, zero-padded.
fmt_year(y) ==
    << DigitChar((y \div 1000) % 10), DigitChar((y \div 100) % 10),
       DigitChar((y \div 10) % 10), DigitChar(y % 10) >>

\* chrono's %a, indexed 1 = Sunday .. 7 = Saturday.
WeekdayNames ==
    << <<"S","u","n">>, <<"M","o","n">>, <<"T","u","e">>, <<"W","e","d">>,
       <<"T","h","u">>, <<"F","r","i">>, <<"S","a","t">> >>

\* chrono's %b, indexed by month number.
MonthNames ==
    << <<"J","a","n">>, <<"F","e","b">>, <<"M","a","r">>, <<"A","p","r">>,
       <<"M","a","y">>, <<"J","u","n">>, <<"J","u","l">>, <<"A","u","g">>,
       <<"S","e","p">>, <<"O","c","t">>, <<"N","o","v">>, <<"D","e","c">> >>

\* The weekday of a Gregorian date, 1 = Sunday .. 7 = Saturday (what
\* DateTime::weekday() yields for %a), by Zeller's congruence.
weekday(y, m, d) ==
    LET mm == IF m < 3 THEN m + 12 ELSE m
        yy == IF m < 3 THEN y - 1 ELSE y
        K  == yy % 100
        J  == yy \div 100
        h  == (d + ((13 * (mm + 1)) \div 5) + K + (K \div 4) + (J \div 4) + 5 * J) % 7
    IN  IF h = 0 THEN 7 ELSE h

\* ------------------------------------------------------------ configuration

\* The statics of lib.rs lines 8-12 are the deployment's configuration: the
\* values in the repository are placeholders that are edited before a build.
\* The model draws the configuration from Configs, which holds the literal
\* values of the source and two fixtures.
VARIABLES config

Configs ==
    { [ account |-> <<"m","y","-","s","t","o","r","a","g","e","-","a","c","c","o","u","n","t","-","n","a","m","e">>,
        queue   |-> <<"q","u","e","u","e","_","n","a","m","e">>,
        key     |-> <<"S","T","O","R","A","G","E","_","A","C","C","O","U","N","T","_","K","E","Y">> ],
      [ account |-> <<"a","c","c","t">>,
        queue   |-> <<"q","1">>,
        key     |-> <<"a","2","V","5">> ],
      [ account |-> <<"m","y","-","s","t","o","r","a","g","e","-","a","c","c","o","u","n","t","-","n","a","m","e">>,
        queue   |-> <<"q","u","e","u","e","_","n","a","m","e">>,
        key     |-> <<"a","2","V","5","c","w","=","=">> ] }

STORAGE_ACCOUNT_NAME == config.account

STORAGE_ACCOUNT_KEY == config.key

QUEUE_NAME == config.queue

X_MS_VERSION == <<"2","0","1","1","-","0","8","-","1","8">>

\* ------------------------------------------------------------ DateFormatter

\* The instants Local::now() may return, as chrono's calendar fields.
Clock ==
    { [ year |-> 2023, month |-> 1, day |-> 2,  hour |-> 3,  minute |-> 4,  second |-> 5 ],
      [ year |-> 2009, month |-> 9, day |-> 2,  hour |-> 20, minute |-> 36, second |-> 40 ],
      [ year |-> 2024, month |-> 2, day |-> 29, hour |-> 23, minute |-> 59, second |-> 59 ] }

\* format!("{}", dt.format("%a, %d %b %Y %H:%M:%S GMT"))
format_date_str(dt) ==
    WeekdayNames[weekday(dt.year, dt.month, dt.day)] \o <<",", " ">>
      \o fmt_pad2(dt.day) \o <<" ">>
      \o MonthNames[dt.month] \o <<" ">>
      \o fmt_year(dt.year) \o <<" ">>
      \o fmt_pad2(dt.hour) \o <<":">> \o fmt_pad2(dt.minute) \o <<":">> \o fmt_pad2(dt.second)
      \o <<" ","G","M","T">>

\* ------------------------------------------------------------- Canonicalizer

\* format!("x-ms-date:{}\nx-ms-version:{}", date_time, X_MS_VERSION)
canonical_headers(date_time) ==
    <<"x","-","m","s","-","d","a","t","e",":">> \o date_time
      \o <<"\n","x","-","m","s","-","v","e","r","s","i","o","n",":">> \o X_MS_VERSION

canonical_resource ==
    join(<< <<"/">>,
            STORAGE_ACCOUNT_NAME,
            <<"/">>,
            QUEUE_NAME,
            <<"/","m","e","s","s","a","g","e","s">> >>)

\* ---------------------------------------------------------- SignatureBuilder

\* The string a build would sign if it followed the doc comment of
\* construct_signature to the letter (CanonicalizedHeaders +
\* CanonicalizedResource, with nothing between them).
construct_signature_doc_comment(content_length, date_time) ==
    join(<< <<"P","O","S","T","\n">>, <<LF>>, <<LF>>,
            IF content_length = 0 THEN <<LF>> ELSE fmt_usize(content_length) \o <<LF>>,
            <<LF>>, <<LF>>, <<LF>>, <<LF>>, <<LF>>, <<LF>>, <<LF>>, <<LF>>,
            canonical_headers(date_time),
            canonical_resource >>)

\* The string a build would sign without the match on content_length.
construct_signature_no_match(content_length, date_time) ==
    join(<< <<"P","O","S","T","\n">>, <<LF>>, <<LF>>,
            fmt_usize(content_length) \o <<LF>>,
            <<LF>>, <<LF>>, <<LF>>, <<LF>>, <<LF>>, <<LF>>, <<LF>>, <<LF>>,
            canonical_headers(date_time),
            <<LF>>,
            canonical_resource >>)

construct_signature(content_length, date_time) ==
    join(<< <<"P","O","S","T","\n">>,                        \* verb
            <<LF>>,                                          \* content encoding
            <<LF>>,                                          \* content language
            IF content_length = 0                            \* content length
              THEN <<LF>>
              ELSE fmt_usize(content_length) \o <<LF>>,
            <<LF>>,                                          \* content-md5
            <<LF>>,                                          \* content-type
            <<LF>>,                                          \* Date
            <<LF>>,                                          \* if-modified
            <<LF>>,                                          \* if match
            <<LF>>,                                          \* if none match
            <<LF>>,                                          \* if unmodified since
            <<LF>>,                                          \* range
            canonical_headers(date_time),
            <<LF>>,
            canonical_resource >>)

\* ------------------------------------------------------------ MessageEncoder

\* The envelope a build would produce without the line breaks.
create_content_string_one_line(contents) ==
    join(<< <<"<","Q","u","e","u","e","M","e","s","s","a","g","e",">">>,
            <<"<","M","e","s","s","a","g","e","T","e","x","t",">">> \o contents
              \o <<"<","/","M","e","s","s","a","g","e","T","e","x","t",">">>,
            <<"<","/","Q","u","e","u","e","M","e","s","s","a","g","e",">">> >>)

create_content_string(contents) ==
    join(<< <<"<","Q","u","e","u","e","M","e","s","s","a","g","e",">","\n">>,
            <<"<","M","e","s","s","a","g","e","T","e","x","t",">">> \o contents
              \o <<"<","/","M","e","s","s","a","g","e","T","e","x","t",">","\n">>,
            <<"<","/","Q","u","e","u","e","M","e","s","s","a","g","e",">">> >>)

\* -------------------------------------------------------------------- Signer

\* The alphabet of base64's general_purpose::STANDARD engine; the sextet of a
\* character is its index, counted from 0.
B64Alphabet ==
    <<"A","B","C","D","E","F","G","H","I","J","K","L","M","N","O","P","Q","R","S","T","U","V","W","X","Y","Z",
      "a","b","c","d","e","f","g","h","i","j","k","l","m","n","o","p","q","r","s","t","u","v","w","x","y","z",
      "0","1","2","3","4","5","6","7","8","9","+","/">>

IsB64Char(c) == \E i \in 1..64 : B64Alphabet[i] = c

B64Index(c) == (CHOOSE i \in 1..64 : B64Alphabet[i] = c) - 1

\* The number of "=" that end s, counted up to the two a padded input has.
b64_padding(s) ==
    LET n == Len(s)
    IN  IF n >= 1 /\ s[n] = "="
          THEN (IF n >= 2 /\ s[n - 1] = "=" THEN 2 ELSE 1)
          ELSE 0

\* The bytes of a well-formed input: every four sextets are three bytes.
b64_bytes(s) ==
    LET m == Len(s) - b64_padding(s)
        sextet(i) == B64Index(s[i])
        byte(k) ==
            LET bit == (k - 1) * 8
                i   == (bit \div 6) + 1
                off == bit % 6
                two == sextet(i) * 64 + sextet(i + 1)
            IN  (two \div (2 ^ (4 - off))) % 256
    IN  [ k \in 1..((m * 6) \div 8) |-> byte(k) ]

\* A decoder that drops the characters outside the alphabet instead of
\* rejecting the input.
b64_decode_lenient(s) ==
    LET kept == SelectSeq(s, IsB64Char)
        m    == Len(kept) - (Len(kept) % 4)
    IN  [ ok |-> TRUE, bytes |-> b64_bytes(SubSeq(kept, 1, m)) ]

\* general_purpose::STANDARD.decode(secret): canonical padding is required,
\* every other character must be of the alphabet, and the bits of the last
\* character that belong to no byte must be zero.
b64_decode(s) ==
    LET n   == Len(s)
        pad == b64_padding(s)
        ok  == /\ n % 4 = 0
               /\ \A i \in 1..(n - pad) : IsB64Char(s[i])
               /\ pad = 1 => B64Index(s[n - 1]) % 4 = 0
               /\ pad = 2 => B64Index(s[n - 2]) % 16 = 0
    IN  IF ok THEN [ ok |-> TRUE, bytes |-> b64_bytes(s) ]
              ELSE [ ok |-> FALSE, bytes |-> << >> ]

\* Hmac::<Sha256>::new_from_slice returns Result<_, InvalidLength>.  The hmac
\* crate is outside the repository: the variant it returns is an input of the
\* model, and hmac_256 is modelled as matching on both, as the code does.
HmacInit == { "Ok", "InvalidLength" }

\* The digest of HMAC-SHA256 is kept symbolic: a term over the key bytes and
\* the data, so that digests are equal exactly when key and data are.
hmac_sha256(key, data) == [ mac |-> "HMAC-SHA256", key |-> key, data |-> data ]

\* general_purpose::STANDARD.encode(sig), of a symbolic digest.
b64_encode(sig) == [ base64 |-> sig ]

\* hmac_256 that signs with whatever a failed decode left (an empty key)
\* instead of stopping.
hmac_256_unwrap_or_default(data, secret, init) ==
    [ kind |-> "Ok", value |-> b64_encode(hmac_sha256(b64_decode(secret).bytes, data)) ]

\* hmac_256 over a decoder that skips invalid characters.
hmac_256_lenient(data, secret, init) ==
    LET key == b64_decode_lenient(secret)
    IN  IF init = "Ok"
          THEN [ kind |-> "Ok", value |-> b64_encode(hmac_sha256(key.bytes, data)) ]
          ELSE [ kind |-> "Panic", step |-> "HmacInit",
                 message |-> "Couldn't Create hmac instance" ]

\* hmac_256(data, secret); init is what new_from_slice returns.  A panic is
\* an outcome of its own kind, labelled with the step that raised it.
hmac_256(data, secret, init) ==
    LET key == b64_decode(secret)
    IN  IF key.ok
          THEN IF init = "Ok"
                 THEN [ kind |-> "Ok", value |-> b64_encode(hmac_sha256(key.bytes, data)) ]
                 ELSE [ kind |-> "Panic", step |-> "HmacInit",
                        message |-> "Couldn't Create hmac instance" ]
          ELSE [ kind |-> "Panic", step |-> "KeyDecode",
                 message |-> "Couldn't Decode account key to base64" ]

\* ----------------------------------------------------------- create_request

VARIABLES
    message_text,   \* the argument of create_request
    pc,             \* the line create_request is about to execute
    body_content,   \* let body_content (line 153)
    dt,             \* let dt (line 158)
    auth_str,       \* let auth_str (line 161)
    auth_header,    \* let auth_header (line 166)
    requests,       \* the requests handed to the transport, in order
    responses,      \* the responses the transport has delivered, in order
    branch,         \* the arm of the match on is_success() that was taken
    printed,        \* what println! has written, in order
    outcome,        \* how the call ended: "running", "returned" or a panic
    computed,       \* the values computed so far, in the order of computation
    clock_reads,    \* the number of calls of Local::now()
    call            \* the last direct call of one of the pure functions

vars ==
    << config, message_text, pc, body_content, dt, auth_str, auth_header,
       requests, responses, branch, printed, outcome, computed, clock_reads,
       call >>

\* The bytes a payload is made of: plain text and a reserved XML character.
PayloadBytes == { "h", "i", "<" }

RECURSIVE SeqsUpTo(_, _)
SeqsUpTo(S, n) ==
    IF n = 0 THEN { << >> }
    ELSE LET shorter == SeqsUpTo(S, n - 1)
         IN  shorter \cup { Append(s, b) : s \in { x \in shorter : Len(x) = n - 1 }, b \in S }

Payloads == SeqsUpTo(PayloadBytes, MaxPayloadLen)

\* The statuses the service answers with in the model: success codes, the
\* signature-mismatch code and a server error.
Statuses == { 200, 201, 204, 403, 500 }

\* What the transport may deliver: a status, headers and a body.
Responses ==
    [ status : Statuses, headers : { "response-headers" }, body : { "response-body" } ]

\* StatusCode::is_success(): the 2xx range.
is_success(status) == 200 <= status /\ status <= 299

NoCall == [ fn |-> "none" ]

Init ==
    /\ config \in Configs
    /\ message_text \in Payloads
    /\ pc = "content"
    /\ body_content = << >>
    /\ dt = << >>
    /\ auth_str = << >>
    /\ auth_header = << >>
    /\ requests = << >>
    /\ responses = << >>
    /\ branch = "none"
    /\ printed = << >>
    /\ outcome = "running"
    /\ computed = << >>
    /\ clock_reads = 0
    /\ call = NoCall

\* line 153: let body_content = create_content_string(message_text);
CreateContent ==
    /\ pc = "content"
    /\ body_content' = create_content_string(message_text)
    /\ computed' = Append(computed, "envelope")
    /\ pc' = "date"
    /\ UNCHANGED << config, message_text, dt, auth_str, auth_header, requests,
                    responses, branch, printed, outcome, clock_reads, call >>

\* line 158: let dt = format_date_str(Local::now());
FormatDate ==
    /\ pc = "date"
    /\ \E now \in Clock : dt' = format_date_str(now)
    /\ clock_reads' = clock_reads + 1
    /\ computed' = Append(computed, "timestamp")
    /\ pc' = "signature"
    /\ UNCHANGED << config, message_text, body_content, auth_str, auth_header,
                    requests, responses, branch, printed, outcome, call >>

\* line 161: let auth_str = construct_signature(body_content.len(), dt.clone());
ConstructSignature ==
    /\ pc = "signature"
    /\ auth_str' = construct_signature(Len(body_content), dt)
    /\ computed' = Append(computed, "string_to_sign")
    /\ pc' = "sign"
    /\ UNCHANGED << config, message_text, body_content, dt, auth_header, requests,
                    responses, branch, printed, outcome, clock_reads, call >>

\* lines 164-166: hmac_256(..).unwrap() and the Authorization value.  A panic
\* inside hmac_256 unwinds create_request: nothing after line 164 runs.
Sign ==
    /\ pc = "sign"
    /\ \E init \in HmacInit :
         LET r == hmac_256(auth_str, STORAGE_ACCOUNT_KEY, init)
         IN  IF r.kind = "Ok"
               THEN /\ auth_header' = << "SharedKey ", STORAGE_ACCOUNT_NAME, ":", r.value >>
                    /\ computed' = Append(computed, "token")
                    /\ pc' = "send"
                    /\ outcome' = outcome
               ELSE /\ auth_header' = auth_header
                    /\ computed' = computed
                    /\ pc' = "panicked"
                    /\ outcome' = IF r.step = "KeyDecode" THEN "panic_key_decode"
                                                          ELSE "panic_hmac_init"
    /\ UNCHANGED << config, message_text, body_content, dt, auth_str, requests,
                    responses, branch, printed, clock_reads, call >>

\* The request of lines 168-176, with the given x-ms-date value and body.
post_request(date, body) ==
    [ verb    |-> "POST",
      headers |-> [ x_ms_date      |-> date,
                    x_ms_version   |-> X_MS_VERSION,
                    authorization  |-> auth_header,
                    content_length |-> Len(body_content) ],
      body    |-> body ]

\* lines 168-176 with a second reading of the clock for the x-ms-date header.
DispatchFreshDate ==
    /\ pc = "send"
    /\ \E now \in Clock :
         requests' = Append(requests, post_request(format_date_str(now), << body_content >>))
    /\ clock_reads' = clock_reads + 1
    /\ pc' = "awaiting"
    /\ UNCHANGED << config, message_text, body_content, dt, auth_str, auth_header,
                    responses, branch, printed, outcome, computed, call >>

\* lines 168-176 without .body(body_content).
DispatchNoBody ==
    /\ pc = "send"
    /\ requests' = Append(requests, post_request(dt, << >>))
    /\ pc' = "awaiting"
    /\ UNCHANGED << config, message_text, body_content, dt, auth_str, auth_header,
                    responses, branch, printed, outcome, computed, clock_reads, call >>

\* lines 168-176: the POST is built and handed to the transport by send().
\* The field body holds the attached bodies: none or one.
Dispatch ==
    /\ pc = "send"
    /\ requests' = Append(requests, post_request(dt, << body_content >>))
    /\ pc' = "awaiting"
    /\ UNCHANGED << config, message_text, body_content, dt, auth_str, auth_header,
                    responses, branch, printed, outcome, computed, clock_reads, call >>

\* line 177-178: .await yields Ok(response).
ReceiveResponse ==
    /\ pc = "awaiting"
    /\ \E r \in Responses : responses' = Append(responses, r)
    /\ pc' = "match"
    /\ UNCHANGED << config, message_text, body_content, dt, auth_str, auth_header,
                    requests, branch, printed, outcome, computed, clock_reads, call >>

\* line 177-178: .await yields Err(_) and .unwrap() panics.
TransportError ==
    /\ pc = "awaiting"
    /\ pc' = "panicked"
    /\ outcome' = "panic_send"
    /\ UNCHANGED << config, message_text, body_content, dt, auth_str, auth_header,
                    requests, responses, branch, printed, computed, clock_reads, call >>

\* lines 180-189 with the status left out of the failure arm.
MatchStatusSilent ==
    /\ pc = "match"
    /\ branch' = IF is_success(responses[1].status) THEN "success" ELSE "failure"
    /\ pc' = "read_body"
    /\ UNCHANGED << config, message_text, body_content, dt, auth_str, auth_header,
                    requests, responses, printed, outcome, computed, clock_reads, call >>

\* lines 180-182 and 186-189: the match on is_success(); the failure arm
\* prints the status before it reads the body.
MatchStatus ==
    /\ pc = "match"
    /\ LET status == responses[1].status
       IN  IF is_success(status)
             THEN /\ branch' = "success"
                  /\ printed' = printed
             ELSE /\ branch' = "failure"
                  /\ printed' = Append(printed, [ what |-> "status", value |-> status ])
    /\ pc' = "read_body"
    /\ UNCHANGED << config, message_text, body_content, dt, auth_str, auth_header,
                    requests, responses, outcome, computed, clock_reads, call >>

\* lines 183-184 and 190-191: bytes().await yields Ok(body); the arm prints
\* body and headers and create_request returns ().
ReadBody ==
    /\ pc = "read_body"
    /\ LET r == responses[1]
           said == IF branch = "success"
                     THEN << [ what |-> "marker", value |-> "Successful Request!" ] >>
                     ELSE << >>
       IN  printed' = printed \o said
                        \o << [ what |-> "body", value |-> r.body ],
                              [ what |-> "headers", value |-> r.headers ] >>
    /\ pc' = "done"
    /\ outcome' = "returned"
    /\ UNCHANGED << config, message_text, body_content, dt, auth_str, auth_header,
                    requests, responses, branch, computed, clock_reads, call >>

\* lines 183 and 190: bytes().await yields Err(_) and .unwrap() panics.
ReadBodyError ==
    /\ pc = "read_body"
    /\ pc' = "panicked"
    /\ outcome' = "panic_read_body"
    /\ UNCHANGED << config, message_text, body_content, dt, auth_str, auth_header,
                    requests, responses, branch, printed, computed, clock_reads, call >>

Next ==
    \/ CreateContent
    \/ FormatDate
    \/ ConstructSignature
    \/ Sign
    \/ Dispatch
    \/ ReceiveResponse
    \/ TransportError
    \/ MatchStatus
    \/ ReadBody
    \/ ReadBodyError

Spec == Init /\ [][Next]_vars

\* ------------------------------------------------- direct calls of the functions

\* The secrets handed to hmac_256: the placeholder of the source, the text
\* "not-base64!!", well-formed keys with and without padding, a key whose
\* padding is missing, a key with stray bits in its last character, and "".
Secrets ==
    { <<"S","T","O","R","A","G","E","_","A","C","C","O","U","N","T","_","K","E","Y">>,
      <<"n","o","t","-","b","a","s","e","6","4","!","!">>,
      <<"a","2","V","5">>,
      <<"a","2","V","5","c","w","=","=">>,
      <<"a","2","V","5","c","w">>,
      <<"a","2","V","5","c","x","=","=">>,
      << >> }

\* The data handed to hmac_256.
SignedData ==
    { << >>, <<"P","O","S","T","\n">>, <<"P","O","S","T","\n","\n","\n","6","0","\n">> }

CallConstructSignature ==
    /\ call = NoCall
    /\ \E n \in 0..MaxContentLength, now \in Clock :
         call' = [ fn             |-> "construct_signature",
                   content_length |-> n,
                   date_time      |-> format_date_str(now),
                   result         |-> construct_signature(n, format_date_str(now)) ]
    /\ UNCHANGED << config, message_text, pc, body_content, dt, auth_str, auth_header,
                    requests, responses, branch, printed, outcome, computed, clock_reads >>

CallHmac256 ==
    /\ call = NoCall
    /\ \E data \in SignedData, secret \in Secrets, init \in HmacInit :
         call' = [ fn     |-> "hmac_256",
                   data   |-> data,
                   secret |-> secret,
                   init   |-> init,
                   result |-> hmac_256(data, secret, init) ]
    /\ UNCHANGED << config, message_text, pc, body_content, dt, auth_str, auth_header,
                    requests, responses, branch, printed, outcome, computed, clock_reads >>

CallCreateContentString ==
    /\ call = NoCall
    /\ \E contents \in Payloads :
         call' = [ fn       |-> "create_content_string",
                   contents |-> contents,
                   result   |-> create_content_string(contents) ]
    /\ UNCHANGED << config, message_text, pc, body_content, dt, auth_str, auth_header,
                    requests, responses, branch, printed, outcome, computed, clock_reads >>

InitFn == Init /\ message_text = << >>

NextFn ==
    \/ CallConstructSignature
    \/ CallHmac256
    \/ CallCreateContentString

SpecFn == InitFn /\ [][NextFn]_vars

\* ------------------------------------------------------ reading a signed string

\* The positions of the newlines of s.
NewlinesAt(s) == { i \in 1..Len(s) : s[i] = LF }

\* The position of the k-th newline of s.
NthNewline(s, k) ==
    CHOOSE p \in NewlinesAt(s) : Cardinality({ q \in NewlinesAt(s) : q <= p }) = k

\* The k-th field of s: the text between the (k-1)-th and the k-th newline
\* (from the start for k = 1, to the end after the last newline).
Field(s, k) ==
    LET from == IF k = 1 THEN 1 ELSE NthNewline(s, k - 1) + 1
        to   == IF k <= Cardinality(NewlinesAt(s)) THEN NthNewline(s, k) - 1 ELSE Len(s)
    IN  SubSeq(s, from, to)

\* The number a string of decimal digits denotes.
RECURSIVE DecimalValue(_)
DecimalValue(f) ==
    IF f = << >> THEN 0
    ELSE DecimalValue(SubSeq(f, 1, Len(f) - 1)) * 10 + DigitValue(f[Len(f)])

IsDecimal(f) == f # << >> /\ \A i \in 1..Len(f) : IsDigitChar(f[i])

HasPrefix(s, p) == Len(s) >= Len(p) /\ SubSeq(s, 1, Len(p)) = p

Reported(what) == \E i \in 1..Len(printed) : printed[i].what = what

Terminal == pc \in { "done", "panicked" }

\* A secret that cannot be base64 whatever the decoder: its length is no
\* multiple of four, or it holds a character that is neither of the alphabet
\* nor the padding character.
EvidentlyNotBase64(s) ==
    \/ Len(s) % 4 # 0
    \/ \E i \in 1..Len(s) : ~IsB64Char(s[i]) /\ s[i] # "="

\* --------------------------------------------------------------------- claims

\* C1: in the string construct_signature builds, the 4th field (the text
\* between the 3rd and the 4th newline) is empty for content_length = 0, and
\* for content_length = N > 0 it is the decimal numeral of N without leading
\* zeros; it is never the text "0".
C1_ContentLengthField ==
    call.fn = "construct_signature" =>
        LET f == Field(call.result, 4)
        IN  /\ Cardinality(NewlinesAt(call.result)) >= 4
            /\ call.content_length = 0 => f = << >>
            /\ call.content_length > 0 =>
                 /\ IsDecimal(f)
                 /\ f[1] # "0"
                 /\ DecimalValue(f) = call.content_length
            /\ f # << "0" >>

C1_Witness ==
    /\ call.fn = "construct_signature"
    /\ call.content_length = 0
    /\ Field(call.result, 4) = << >>

C3_Fixture ==
    /\ config.account = <<"a","c","c","t">>
    /\ config.queue = <<"q","1">>
    /\ message_text = <<"h","i">>
    /\ dt = <<"M","o","n",","," ","0","2"," ","J","a","n"," ","2","0","2","3"," ","0","3",":","0","4",":","0","5"," ","G","M","T">>
    /\ pc \notin { "content", "date", "signature" }

\* C3 as stated: with account "acct", queue "q1", version "2011-08-18" and
\* timestamp "Mon, 02 Jan 2023 03:04:05 GMT", the envelope of payload "hi"
\* has length 29 and the string to sign is "POST\n\n\n29\n", eight "\n",
\* and the canonical headers and resource.
C3_EndToEnd29 ==
    C3_Fixture =>
        /\ Len(body_content) = 29
        /\ auth_str =
             << "P","O","S","T","\n","\n","\n","2","9","\n","\n","\n","\n","\n","\n","\n","\n","\n","x",
                "-","m","s","-","d","a","t","e",":","M","o","n",","," ","0","2"," ","J","a","n"," ","2",
                "0","2","3"," ","0","3",":","0","4",":","0","5"," ","G","M","T","\n","x","-","m","s","-",
                "v","e","r","s","i","o","n",":","2","0","1","1","-","0","8","-","1","8","\n","/","a","c",
                "c","t","/","q","1","/","m","e","s","s","a","g","e","s" >>

\* C3 amended: in the same scenario the envelope of payload "hi" has length
\* 60 and the string to sign is "POST\n\n\n60\n", eight "\n", and
\* "x-ms-date:Mon, 02 Jan 2023 03:04:05 GMT\nx-ms-version:2011-08-18\n/acct/q1/messages".
C3_EndToEnd60 ==
    C3_Fixture =>
        /\ Len(body_content) = 60
        /\ auth_str =
             << "P","O","S","T","\n","\n","\n","6","0","\n","\n","\n","\n","\n","\n","\n","\n","\n","x",
                "-","m","s","-","d","a","t","e",":","M","o","n",","," ","0","2"," ","J","a","n"," ","2",
                "0","2","3"," ","0","3",":","0","4",":","0","5"," ","G","M","T","\n","x","-","m","s","-",
                "v","e","r","s","i","o","n",":","2","0","1","1","-","0","8","-","1","8","\n","/","a","c",
                "c","t","/","q","1","/","m","e","s","s","a","g","e","s" >>

C3_Witness == C3_Fixture /\ Len(body_content) = 60 /\ Len(requests) = 1

\* C4: the clock is read once per run, and the x-ms-date header of every
\* request sent is the value that follows "x-ms-date:" in the signed string.
C4_OneTimestamp ==
    /\ clock_reads <= 1
    /\ \A i \in 1..Len(requests) :
         /\ clock_reads = 1
         /\ HasPrefix(Field(auth_str, 13), <<"x","-","m","s","-","d","a","t","e",":">>)
         /\ requests[i].headers.x_ms_date = SubSeq(Field(auth_str, 13), 11, Len(Field(auth_str, 13)))

C4_Witness ==
    /\ Len(requests) = 1
    /\ requests[1].headers.x_ms_date = dt
    /\ dt # << >>
    /\ pc = "done"

\* C5: the Content-Length header of the request sent, the content-length
\* field of the signed string and the length of the attached body are one
\* number, the byte length of the envelope of the payload (the payload and
\* the 58 bytes of the two tags and two line breaks); a body is attached.
C5_OneContentLength ==
    \A i \in 1..Len(requests) :
        LET q == requests[i]
        IN  /\ Len(q.body) = 1
            /\ q.body[1] = create_content_string(message_text)
            /\ q.headers.content_length = Len(q.body[1])
            /\ IsDecimal(Field(auth_str, 4))
            /\ DecimalValue(Field(auth_str, 4)) = q.headers.content_length
            /\ q.headers.content_length = Len(message_text) + 58

C5_Witness ==
    /\ Len(requests) = 1
    /\ message_text = <<"<","i">>
    /\ requests[1].headers.content_length = 60
    /\ Len(requests[1].body[1]) = 60

\* C6: hmac_256 with a secret that is not base64 ends in the error outcome
\* of the key-decode step, told apart from the HMAC-initialisation error,
\* and yields no token, whatever the data.
C6_KeyDecodeError ==
    (call.fn = "hmac_256" /\ EvidentlyNotBase64(call.secret)) =>
        /\ call.result.kind = "Panic"
        /\ call.result.step = "KeyDecode"
        /\ call.result.message = "Couldn't Decode account key to base64"
        /\ call.result.message # "Couldn't Create hmac instance"

C6_Witness ==
    /\ call.fn = "hmac_256"
    /\ call.secret = <<"n","o","t","-","b","a","s","e","6","4","!","!">>
    /\ call.data # << >>
    /\ call.result.kind = "Panic"

\* C7 as stated: the success arm is taken exactly when the status is 201.
C7_SuccessOnly201 ==
    branch # "none" => (branch = "success" <=> responses[1].status = 201)

C9_NoPanicOnTransportFailure ==
    outcome \notin { "panic_send", "panic_read_body" }

\* C10: at most one POST is sent, and only after the envelope, the
\* timestamp, the string to sign and the token were computed, in that
\* order; a run whose key fails to decode, or whose HMAC fails to
\* initialise, never sends a request.
C10_DispatchOnceAfterSigning ==
    /\ Len(requests) <= 1
    /\ Len(requests) = 1 =>
         /\ computed = << "envelope", "timestamp", "string_to_sign", "token" >>
         /\ body_content = create_content_string(message_text)
         /\ dt # << >>
         /\ auth_str = construct_signature(Len(body_content), dt)
         /\ requests[1].headers.authorization = auth_header
         /\ auth_header # << >>
    /\ outcome \in { "panic_key_decode", "panic_hmac_init" } => requests = << >>
    /\ EvidentlyNotBase64(config.key) => (requests = << >> /\ outcome # "returned")

C10_Witness ==
    /\ outcome = "panic_key_decode"
    /\ computed = << "envelope", "timestamp", "string_to_sign" >>
    /\ requests = << >>

====
